---- MODULE Spec2Model ----
(***************************************************************************)
(* State-machine model of analyze_plot.py: the pipeline                    *)
(*   load_data -> timestamp normalisation -> decode_payload per row ->     *)
(*   sort_values -> savefig.                                               *)
(* A Python str is a sequence of one-character strings, so that strip,     *)
(* split, replace, re.sub, slicing and int(.., 16) are computed character  *)
(* by character as the interpreter computes them.                          *)
(***************************************************************************)
EXTENDS Integers, Sequences, FiniteSets, TLC

\* Longest input file (in lines) the model reads.
MaxLines == 3

-----------------------------------------------------------------------------
(* Python string primitives *)

\* str.strip() with no argument removes these (the ones the inputs use).
Whitespace == {" ", "\t"}

RECURSIVE LStrip(_)
LStrip(s) ==
    IF s # <<>> /\ Head(s) \in Whitespace THEN LStrip(Tail(s)) ELSE s

RECURSIVE RStrip(_)
RStrip(s) ==
    IF s # <<>> /\ s[Len(s)] \in Whitespace
    THEN RStrip(SubSeq(s, 1, Len(s) - 1))
    ELSE s

\* str.strip()
Strip(s) == RStrip(LStrip(s))

\* str.replace(ch, ''): every occurrence of ch is deleted
Remove(s, ch) == SelectSeq(s, LAMBDA c : c # ch)

\* str.split(';'): always at least one field, empty fields kept.  The scan
\* is at character k, field holds the characters since the last separator.
RECURSIVE SplitFrom(_, _, _)
SplitFrom(s, k, field) ==
    IF k > Len(s) THEN <<field>>
    ELSE IF s[k] = ";" THEN <<field>> \o SplitFrom(s, k + 1, <<>>)
    ELSE SplitFrom(s, k + 1, Append(field, s[k]))

Split(s) == SplitFrom(s, 1, <<>>)

\* Python's  sub in s
Contains(sub, s) ==
    \E k \in 0..(Len(s) - Len(sub)) : SubSeq(s, k + 1, k + Len(sub)) = sub

\* Python's s[a:b] for 0 <= a <= b: the slice is clamped to the string
Slice(s, a, b) == SubSeq(s, a + 1, IF b < Len(s) THEN b ELSE Len(s))

LowerHex == <<"0","1","2","3","4","5","6","7","8","9","a","b","c","d","e","f">>
UpperHex == <<"0","1","2","3","4","5","6","7","8","9","A","B","C","D","E","F">>

\* the character class 0-9a-fA-F
HexDigits == {LowerHex[k] : k \in 1..16} \cup {UpperHex[k] : k \in 1..16}

HexVal(c) == (CHOOSE k \in 1..16 : LowerHex[k] = c \/ UpperHex[k] = c) - 1

RECURSIVE HexNumber(_)
HexNumber(s) ==
    IF s = <<>> THEN 0
    ELSE 16 * HexNumber(SubSeq(s, 1, Len(s) - 1)) + HexVal(s[Len(s)])

\* int(x, 16) on the strings the decoder passes: a ValueError for an empty
\* string or a character that is no hex digit, else the base-16 value.
IntBase16(x) ==
    IF x = <<>> \/ \E k \in 1..Len(x) : x[k] \notin HexDigits
    THEN [error |-> TRUE, value |-> 0]
    ELSE [error |-> FALSE, value |-> HexNumber(x)]

\* re.sub(r"[^0-9a-fA-F]", "", hex_str)
ReSubNonHex(hex_str) == SelectSeq(hex_str, LAMBDA c : c \in HexDigits)

-----------------------------------------------------------------------------
(* Input files: each line is one of these *)

\* "64320064012C01F401900258";"1F06AD2";"12";"2024-01-01 00:10"
LineExample ==
    <<"\"","6","4","3","2","0","0","6","4","0","1","2","C","0","1","F","4","0","1","9","0","0","2","5","8","\"",";","\"","1","F","0","6","A","D","2","\"",";","\"","1","2","\"",";","\"","2","0","2","4","-","0","1","-","0","1"," ","0","0",":","1","0","\"">>
\* 00ff0000FFFF00010002000a;1F06AD2;13;2024-01-01 00:30
LineLower ==
    <<"0","0","f","f","0","0","0","0","F","F","F","F","0","0","0","1","0","0","0","2","0","0","0","a",";","1","F","0","6","A","D","2",";","1","3",";","2","0","2","4","-","0","1","-","0","1"," ","0","0",":","3","0">>
\*  "64-32 0064:012C x01F4 0190 0258FFFF" ; '1F06AD3' ;14;extra;<TAB>"2024-01-01 00:18" 
LineNoisy ==
    <<" ","\"","6","4","-","3","2"," ","0","0","6","4",":","0","1","2","C"," ","x","0","1","F","4"," ","0","1","9","0"," ","0","2","5","8","F","F","F","F","\""," ",";"," ","'","1","F","0","6","A","D","3","'"," ",";","1","4",";","e","x","t","r","a",";","\t","\"","2","0","2","4","-","0","1","-","0","1"," ","0","0",":","1","8","\""," ">>
\* "Data=6432:0064012C01F40190";"1F06AD2";"15";"2023-12-31 23:58"
LineDataShort ==
    <<"\"","D","a","t","a","=","6","4","3","2",":","0","0","6","4","0","1","2","C","0","1","F","4","0","1","9","0","\"",";","\"","1","F","0","6","A","D","2","\"",";","\"","1","5","\"",";","\"","2","0","2","3","-","1","2","-","3","1"," ","2","3",":","5","8","\"">>
\* "Data";"Device ID";"Sequence number";"Timestamp"
LineHeader ==
    <<"\"","D","a","t","a","\"",";","\"","D","e","v","i","c","e"," ","I","D","\"",";","\"","S","e","q","u","e","n","c","e"," ","n","u","m","b","e","r","\"",";","\"","T","i","m","e","s","t","a","m","p","\"">>
\* "C8640064012C01F401900258";"1F06AD2";"17";"n/a"
LineBadTime ==
    <<"\"","C","8","6","4","0","0","6","4","0","1","2","C","0","1","F","4","0","1","9","0","0","2","5","8","\"",";","\"","1","F","0","6","A","D","2","\"",";","\"","1","7","\"",";","\"","n","/","a","\"">>
\* "C8000064012C01F401900258";"1F06AD2";"2024-01-01 00:40"
LineThree ==
    <<"\"","C","8","0","0","0","0","6","4","0","1","2","C","0","1","F","4","0","1","9","0","0","2","5","8","\"",";","\"","1","F","0","6","A","D","2","\"",";","\"","2","0","2","4","-","0","1","-","0","1"," ","0","0",":","4","0","\"">>
\*  <TAB>
LineBlank ==
    <<" ","\t">>

CandidateLines ==
    {LineExample, LineLower, LineNoisy, LineDataShort, LineHeader,
     LineBadTime, LineThree, LineBlank}

RECURSIVE SeqsUpTo(_, _)
SeqsUpTo(S, n) ==
    IF n = 0 THEN {<<>>}
    ELSE LET shorter == SeqsUpTo(S, n - 1)
         IN  shorter \cup {Append(q, x) : q \in shorter, x \in S}

\* the text files the model reads, as lists of lines
InputFiles == SeqsUpTo(CandidateLines, MaxLines)

-----------------------------------------------------------------------------
(* load_data *)

StrData == <<"D","a","t","a">>
StrTimestamp == <<"T","i","m","e","s","t","a","m","p">>

\* line 28: p.strip().replace('"', '').replace("'", "") for each part
CleanPart(p) == Remove(Remove(Strip(p), "\""), "'")

CleanParts(parts) == [k \in 1..Len(parts) |-> CleanPart(parts[k])]

\* ParseLine with the timestamp read from the fourth column instead of the
\* last one
ParseLine_FourthColumn(rawline) ==
    LET line == Strip(rawline)
        clean_parts == CleanParts(Split(line))
        data_str == clean_parts[1]
        device_id == clean_parts[2]
        timestamp == clean_parts[4]
    IN  IF line = <<>> THEN <<>>
        ELSE IF Len(clean_parts) >= 4
        THEN IF Contains(StrData, data_str) /\ Contains(StrTimestamp, timestamp)
             THEN <<>>
             ELSE <<[Data |-> data_str, DeviceID |-> device_id,
                     Timestamp |-> timestamp]>>
        ELSE <<>>

\* lines 21-41: the body of the loop for one line; the rows it appends
ParseLine(rawline) ==
    LET line == Strip(rawline)
        clean_parts == CleanParts(Split(line))
        data_str == clean_parts[1]
        device_id == clean_parts[2]
        timestamp == clean_parts[Len(clean_parts)]
    IN  IF line = <<>> THEN <<>>
        ELSE IF Len(clean_parts) >= 4
        THEN IF Contains(StrData, data_str) /\ Contains(StrTimestamp, timestamp)
             THEN <<>>
             ELSE <<[Data |-> data_str, DeviceID |-> device_id,
                     Timestamp |-> timestamp]>>
        ELSE <<>>

RECURSIVE ParseLines(_)
ParseLines(lines) ==
    IF lines = <<>> THEN <<>>
    ELSE ParseLine(Head(lines)) \o ParseLines(Tail(lines))

\* load_data(path): the rows of the DataFrame it returns; an open() failure
\* is caught and gives the empty DataFrame.
load_data(readable, lines) ==
    IF readable THEN ParseLines(lines) ELSE <<>>

-----------------------------------------------------------------------------
(* Timestamps: pd.to_datetime, tz_convert, pd.Timedelta *)

Digits == {"0","1","2","3","4","5","6","7","8","9"}

AllDigits(s) == \A k \in 1..Len(s) : s[k] \in Digits

RECURSIVE Decimal(_)
Decimal(s) ==
    IF s = <<>> THEN 0
    ELSE 10 * Decimal(SubSeq(s, 1, Len(s) - 1)) + HexVal(s[Len(s)])

IsLeap(y) == (y % 4 = 0 /\ y % 100 # 0) \/ y % 400 = 0

DaysInMonth(y, m) ==
    IF m = 2 THEN (IF IsLeap(y) THEN 29 ELSE 28)
    ELSE IF m \in {4, 6, 9, 11} THEN 30 ELSE 31

\* days from 1970-01-01 to the civil date y-m-d (proleptic Gregorian)
DaysFromCivil(y, m, d) ==
    LET yy == IF m <= 2 THEN y - 1 ELSE y
        era == yy \div 400
        yoe == yy - era * 400
        mp == IF m > 2 THEN m - 3 ELSE m + 9
        doy == (153 * mp + 2) \div 5 + d - 1
        doe == yoe * 365 + yoe \div 4 - yoe \div 100 + doy
    IN  era * 146097 + doe - 719468

\* the missing value errors='coerce' puts in place of an unparsable string
NaT == [nat |-> TRUE, instant |-> 0, utcoffset |-> 0]

\* pd.to_datetime(text, errors='coerce', utc=True) on one string, for the
\* layout the export uses, YYYY-MM-DD HH:MM (or with a T): the instant in
\* minutes since 1970-01-01T00:00Z, zone UTC.  Every other string is NaT.
to_datetime(text) ==
    IF /\ Len(text) = 16
       /\ AllDigits(SubSeq(text, 1, 4)) /\ text[5] = "-"
       /\ AllDigits(SubSeq(text, 6, 7)) /\ text[8] = "-"
       /\ AllDigits(SubSeq(text, 9, 10)) /\ text[11] \in {" ", "T"}
       /\ AllDigits(SubSeq(text, 12, 13)) /\ text[14] = ":"
       /\ AllDigits(SubSeq(text, 15, 16))
    THEN LET y == Decimal(SubSeq(text, 1, 4))
             m == Decimal(SubSeq(text, 6, 7))
             d == Decimal(SubSeq(text, 9, 10))
             hh == Decimal(SubSeq(text, 12, 13))
             mm == Decimal(SubSeq(text, 15, 16))
         IN  IF /\ y >= 1970 /\ m \in 1..12 /\ d \in 1..DaysInMonth(y, m)
                /\ hh \in 0..23 /\ mm \in 0..59
             THEN [nat |-> FALSE,
                   instant |-> DaysFromCivil(y, m, d) * 1440 + hh * 60 + mm,
                   utcoffset |-> 0]
             ELSE NaT
    ELSE NaT

\* .dt.tz_convert('Asia/Tokyo'): the same instant, shown at UTC+9 (minutes)
tz_convert_tokyo(ts) == [ts EXCEPT !.utcoffset = 540]

\* minus_minutes with the sign of the offset wrong
plus_minutes(ts, n) == [ts EXCEPT !.instant = @ + n]

\* ts - pd.Timedelta(minutes=n)
minus_minutes(ts, n) == [ts EXCEPT !.instant = @ - n]

\* normalize_timestamps giving up at the first unparsable timestamp
RECURSIVE normalize_timestamps_StopAtNaT(_)
normalize_timestamps_StopAtNaT(df) ==
    IF df = <<>> THEN <<>>
    ELSE LET r == Head(df)
             ts == to_datetime(r.Timestamp)
         IN  IF ts.nat THEN <<>>
             ELSE <<[r EXCEPT !.Timestamp = tz_convert_tokyo(ts)]>>
                  \o normalize_timestamps_StopAtNaT(Tail(df))

\* lines 116-118 of main: parse, dropna, tz_convert, in row order
RECURSIVE normalize_timestamps(_)
normalize_timestamps(df) ==
    IF df = <<>> THEN <<>>
    ELSE LET r == Head(df)
             ts == to_datetime(r.Timestamp)
         IN  (IF ts.nat THEN <<>>
              ELSE <<[r EXCEPT !.Timestamp = tz_convert_tokyo(ts)]>>)
             \o normalize_timestamps(Tail(df))

-----------------------------------------------------------------------------
(* decode_payload *)

\* line 72-73: (volt_val * 0.0125) + 1.0, kept exact in units of 0.0001 V
VoltageOf(volt_val) == volt_val * 125 + 10000

\* HistoryRecord with the slots counted from the start of the payload, the
\* two header bytes forgotten
HistoryRecord_NoHeader(s, current_time, voltage, batt_pct, device, i) ==
    LET start_idx == i * 4
        end_idx == start_idx + 4
        distance_mm == IntBase16(Slice(s, start_idx, end_idx))
        record_time == minus_minutes(current_time, i * 2)
    IN  [error |-> distance_mm.error,
         rec |-> [Timestamp_JST |-> record_time,
                  Distance_mm |-> distance_mm.value,
                  Voltage_V |-> voltage,
                  Battery_Pct |-> batt_pct,
                  DeviceID |-> device]]

\* lines 84-99: the record of history slot i (0..4); an int() failure of the
\* slot is reported in its error field
HistoryRecord(s, current_time, voltage, batt_pct, device, i) ==
    LET start_idx == 4 + (i * 4)
        end_idx == start_idx + 4
        distance_mm == IntBase16(Slice(s, start_idx, end_idx))
        record_time == minus_minutes(current_time, i * 2)
    IN  [error |-> distance_mm.error,
         rec |-> [Timestamp_JST |-> record_time,
                  Distance_mm |-> distance_mm.value,
                  Voltage_V |-> voltage,
                  Battery_Pct |-> batt_pct,
                  DeviceID |-> device]]

\* decode_payload with the length test made on the raw field
decode_payload_RawLength(row) ==
    LET hex_str == row.Data
        current_time == row.Timestamp
        s == ReSubNonHex(hex_str)
        volt_val == IntBase16(Slice(s, 0, 2))
        batt_pct == IntBase16(Slice(s, 2, 4))
        slots == [k \in 1..5 |->
                    HistoryRecord(s, current_time, VoltageOf(volt_val.value),
                                  batt_pct.value, row.DeviceID, k - 1)]
    IN  IF Len(hex_str) < 24 THEN <<>>
        ELSE IF volt_val.error \/ batt_pct.error
                \/ \E k \in 1..5 : slots[k].error
        THEN <<>>
        ELSE [k \in 1..5 |-> slots[k].rec]

\* decode_payload with the history slots cut from the raw field
decode_payload_RawSlots(row) ==
    LET hex_str == row.Data
        current_time == row.Timestamp
        s == ReSubNonHex(hex_str)
        volt_val == IntBase16(Slice(s, 0, 2))
        batt_pct == IntBase16(Slice(s, 2, 4))
        slots == [k \in 1..5 |->
                    HistoryRecord(hex_str, current_time,
                                  VoltageOf(volt_val.value),
                                  batt_pct.value, row.DeviceID, k - 1)]
    IN  IF Len(s) < 24 THEN <<>>
        ELSE IF volt_val.error \/ batt_pct.error
                \/ \E k \in 1..5 : slots[k].error
        THEN <<>>
        ELSE [k \in 1..5 |-> slots[k].rec]

\* decode_payload with the battery byte cut one character too long
decode_payload_WideBattery(row) ==
    LET hex_str == row.Data
        current_time == row.Timestamp
        s == ReSubNonHex(hex_str)
        volt_val == IntBase16(Slice(s, 0, 2))
        batt_pct == IntBase16(Slice(s, 2, 5))
        slots == [k \in 1..5 |->
                    HistoryRecord(s, current_time, VoltageOf(volt_val.value),
                                  batt_pct.value, row.DeviceID, k - 1)]
    IN  IF Len(s) < 24 THEN <<>>
        ELSE IF volt_val.error \/ batt_pct.error
                \/ \E k \in 1..5 : slots[k].error
        THEN <<>>
        ELSE [k \in 1..5 |-> slots[k].rec]

\* decode_payload(row): the list it returns
decode_payload(row) ==
    LET hex_str == row.Data
        current_time == row.Timestamp
        s == ReSubNonHex(hex_str)
        volt_val == IntBase16(Slice(s, 0, 2))
        batt_pct == IntBase16(Slice(s, 2, 4))
        slots == [k \in 1..5 |->
                    HistoryRecord(s, current_time, VoltageOf(volt_val.value),
                                  batt_pct.value, row.DeviceID, k - 1)]
    IN  IF Len(s) < 24 THEN <<>>
        ELSE IF volt_val.error \/ batt_pct.error
                \/ \E k \in 1..5 : slots[k].error
        THEN <<>>                                  \* except Exception
        ELSE [k \in 1..5 |-> slots[k].rec]

-----------------------------------------------------------------------------
(* sort_values('Timestamp_JST') *)

SortKey(rec) == rec.Timestamp_JST.instant

RemoveFirst(recs, r) ==
    LET k == CHOOSE j \in 1..Len(recs) :
                 recs[j] = r /\ \A h \in 1..(j - 1) : recs[h] # r
    IN  SubSeq(recs, 1, k - 1) \o SubSeq(recs, k + 1, Len(recs))

\* sort_values leaving the rows as they are
sort_values_Unsorted(recs) == {recs}

\* DataFrame.sort_values with its default kind='quicksort', which pandas
\* documents as not stable: any ascending arrangement of the rows may come
\* out, rows with equal keys in any relative order.
RECURSIVE sort_values(_)
sort_values(recs) ==
    IF recs = <<>> THEN {<<>>}
    ELSE LET firsts == {recs[k] : k \in {j \in 1..Len(recs) :
                           \A h \in 1..Len(recs) :
                               SortKey(recs[j]) <= SortKey(recs[h])}}
         IN  UNION {{<<r>> \o rest : rest \in sort_values(RemoveFirst(recs, r))}
                    : r \in firsts}

-----------------------------------------------------------------------------
(* main *)

VARIABLES
    pc,           \* where main is: start, loaded, decode, plot, done
    readable,     \* whether csv_path can be opened and read
    lines,        \* the lines of the file at csv_path
    df_raw,       \* main's df_raw, a list of rows
    pos,          \* rows of df_raw the loop of line 124 has visited
    records,      \* decode_payload's result for the row visited last
    all_records,  \* main's all_records
    df_plot,      \* main's df_plot
    device_id,    \* main's device_id
    console,      \* what was printed, one tag per print call
    savefig_calls \* how often water_level_graph.png was written

vars == <<pc, readable, lines, df_raw, pos, records, all_records, df_plot,
          device_id, console, savefig_calls>>

Init ==
    /\ pc = "start"
    /\ readable \in BOOLEAN
    /\ lines \in InputFiles
    /\ (~readable => lines = <<>>)
    /\ df_raw = <<>>
    /\ pos = 0
    /\ records = <<>>
    /\ all_records = <<>>
    /\ df_plot = <<>>
    /\ device_id = <<>>
    /\ console = <<>>
    /\ savefig_calls = 0

\* lines 107-113: load_data and the empty check
Load ==
    /\ pc = "start"
    /\ df_raw' = load_data(readable, lines)
    /\ IF df_raw' = <<>>
       THEN /\ console' = console \o <<"start">>
                          \o (IF readable THEN <<>> ELSE <<"read_error">>)
                          \o <<"no_data">>
            /\ pc' = "done"
       ELSE /\ console' = console \o <<"start">>
            /\ pc' = "loaded"
    /\ UNCHANGED <<readable, lines, pos, records, all_records, df_plot,
                   device_id, savefig_calls>>

\* lines 116-123: timestamp normalisation, the row count, all_records = []
Normalize ==
    /\ pc = "loaded"
    /\ df_raw' = normalize_timestamps(df_raw)
    /\ console' = Append(console, "row_count")
    /\ all_records' = <<>>
    /\ pos' = 0
    /\ pc' = "decode"
    /\ UNCHANGED <<readable, lines, records, df_plot, device_id,
                   savefig_calls>>

\* lines 124-126: one iteration of the loop over df_raw.iterrows()
DecodeRow ==
    /\ pc = "decode"
    /\ pos < Len(df_raw)
    /\ pos' = pos + 1
    /\ records' = decode_payload(df_raw[pos + 1])
    /\ all_records' = all_records \o records'
    /\ UNCHANGED <<pc, readable, lines, df_raw, df_plot, device_id, console,
                   savefig_calls>>

\* NoRecords without its return: main goes on to plot
NoRecords_FallsThrough ==
    /\ pc = "decode"
    /\ pos = Len(df_raw)
    /\ all_records = <<>>
    /\ console' = Append(console, "no_packets")
    /\ pc' = "plot"
    /\ UNCHANGED <<readable, lines, df_raw, pos, records, all_records,
                   df_plot, device_id, savefig_calls>>

\* lines 128-130: nothing decoded
NoRecords ==
    /\ pc = "decode"
    /\ pos = Len(df_raw)
    /\ all_records = <<>>
    /\ console' = Append(console, "no_packets")
    /\ pc' = "done"
    /\ UNCHANGED <<readable, lines, df_raw, pos, records, all_records,
                   df_plot, device_id, savefig_calls>>

\* lines 133-137: the sorted frame and the device label
Assemble ==
    /\ pc = "decode"
    /\ pos = Len(df_raw)
    /\ all_records # <<>>
    /\ df_plot' \in sort_values(all_records)
    /\ device_id' = df_plot'[1].DeviceID
    /\ console' = Append(console, "expanded")
    /\ pc' = "plot"
    /\ UNCHANGED <<readable, lines, df_raw, pos, records, all_records,
                   savefig_calls>>

\* lines 140-182: the two panels and plt.savefig
Render ==
    /\ pc = "plot"
    /\ console' = Append(console, "plotting")
    /\ savefig_calls' = savefig_calls + 1
    /\ pc' = "done"
    /\ UNCHANGED <<readable, lines, df_raw, pos, records, all_records,
                   df_plot, device_id>>

Next == Load \/ Normalize \/ DecodeRow \/ NoRecords \/ Assemble \/ Render

Spec == Init /\ [][Next]_vars

-----------------------------------------------------------------------------
(* Vocabulary of the properties *)

\* the row the decode loop visited last (defined once pos >= 1)
row == df_raw[pos]

\* the loop has just decoded a row: records is decode_payload(row)
Decoded == pc = "decode" /\ pos >= 1

\* how many characters of a Data field are hex digits
HexCount(data) == Cardinality({k \in 1..Len(data) : data[k] \in HexDigits})

\* the hex digits of a Data field, in order
HexOnly(data) == SelectSeq(data, LAMBDA c : c \in HexDigits)

\* the first 24 hex digits of a Data field (or all, if fewer)
Prefix24(data) ==
    LET h == HexOnly(data)
    IN  SubSeq(h, 1, IF Len(h) < 24 THEN Len(h) ELSE 24)

\* the unsigned big-endian value of n hex digits of h, after the first k
RECURSIVE BigEndian(_, _, _)
BigEndian(h, k, n) ==
    IF n = 0 THEN 0 ELSE 16 * BigEndian(h, k, n - 1) + HexVal(h[k + n])

Ascending(recs) ==
    \A k \in 1..(Len(recs) - 1) : SortKey(recs[k]) <= SortKey(recs[k + 1])

Occurrences(recs, r) == Cardinality({k \in 1..Len(recs) : recs[k] = r})

\* the same records, each as often, in some order
SameRecords(a, b) ==
    /\ Len(a) = Len(b)
    /\ \A k \in 1..Len(a) : Occurrences(a, a[k]) = Occurrences(b, a[k])

\* the loop of line 124 has run to its end (or was never entered)
LoopOver == pc \in {"plot", "done"} \/ (pc = "decode" /\ pos = Len(df_raw))

\* main returned through one of its two error prints
TerminalMessage ==
    /\ console # <<>>
    /\ console[Len(console)] \in {"no_data", "no_packets"}

(* What the specification says of one input line, stated on the raw line *)

\* the fields of a line: split at ';', each without surrounding whitespace
\* and without quote characters
FieldsOf(rawline) ==
    LET raw == Split(Strip(rawline))
    IN  [k \in 1..Len(raw) |->
            SelectSeq(Strip(raw[k]), LAMBDA c : c \notin {"\"", "'"})]

IsHeader(fields) ==
    /\ Contains(StrData, fields[1])
    /\ Contains(StrTimestamp, fields[Len(fields)])

\* a data line: not empty after trimming, at least 4 fields, no header
IsData(rawline, fields) ==
    /\ Strip(rawline) # <<>>
    /\ Len(fields) >= 4
    /\ ~IsHeader(fields)

IsHeaderLine(rawline) == IsHeader(FieldsOf(rawline))

IsDataLine(rawline) == IsData(rawline, FieldsOf(rawline))

RowOf(fields) ==
    [Data |-> fields[1], DeviceID |-> fields[2],
     Timestamp |-> fields[Len(fields)]]

RECURSIVE ExpectedRows(_)
ExpectedRows(text) ==
    IF text = <<>> THEN <<>>
    ELSE LET f == FieldsOf(Head(text))
         IN  (IF IsData(Head(text), f) THEN <<RowOf(f)>> ELSE <<>>)
             \o ExpectedRows(Tail(text))

RECURSIVE JoinFields(_)
JoinFields(fields) ==
    IF Len(fields) = 1 THEN fields[1]
    ELSE fields[1] \o <<";">> \o JoinFields(Tail(fields))

\* what stands in for the fields between the device ID and the timestamp
MiddleFillers ==
    {<<StrData, StrTimestamp>>,
     <<<<"9">>, <<>>, <<"2","0","2","4">>>>}

\* the line with its fields 2..n-2 replaced (lines of fewer than 4 fields
\* have no such field and stay as they are)
WithMiddle(rawline, filler) ==
    LET f == Split(rawline)
    IN  IF Len(f) < 4 THEN rawline
        ELSE JoinFields(<<f[1], f[2]>> \o filler \o <<f[Len(f)]>>)

(* What the specification says of one row that reaches the decoder *)

HasValidTime(fields) == ~to_datetime(fields[Len(fields)]).nat

\* a line whose row is to give five samples
IsGood(rawline, fields) ==
    /\ IsData(rawline, fields)
    /\ HasValidTime(fields)
    /\ HexCount(fields[1]) >= 24

HasValidTimestamp(rawline) == HasValidTime(FieldsOf(rawline))

IsGoodLine(rawline) == IsGood(rawline, FieldsOf(rawline))

NormalizedRowOf(fields) ==
    [RowOf(fields) EXCEPT
        !.Timestamp = tz_convert_tokyo(to_datetime(fields[Len(fields)]))]

RECURSIVE ExpectedSamples(_)
ExpectedSamples(text) ==
    IF text = <<>> THEN <<>>
    ELSE LET f == FieldsOf(Head(text))
         IN  (IF IsGood(Head(text), f)
              THEN decode_payload(NormalizedRowOf(f))
              ELSE <<>>)
             \o ExpectedSamples(Tail(text))

\* the samples of the rows of a normalized frame whose payload decodes
RECURSIVE SamplesOfRows(_)
SamplesOfRows(rows) ==
    IF rows = <<>> THEN <<>>
    ELSE (IF HexCount(Head(rows).Data) >= 24
          THEN decode_payload(Head(rows))
          ELSE <<>>)
         \o SamplesOfRows(Tail(rows))

\* the arrangement a stable ascending sort gives: of the records with the
\* least key, the one appended first comes first
RECURSIVE StableSort(_)
StableSort(recs) ==
    IF recs = <<>> THEN <<>>
    ELSE LET k == CHOOSE j \in 1..Len(recs) :
                      /\ \A h \in 1..Len(recs) :
                             SortKey(recs[j]) <= SortKey(recs[h])
                      /\ \A h \in 1..(j - 1) :
                             SortKey(recs[h]) > SortKey(recs[j])
         IN  <<recs[k]>>
             \o StableSort(SubSeq(recs, 1, k - 1) \o SubSeq(recs, k + 1, Len(recs)))

DataOf(rawline) == FieldsOf(rawline)[1]

\* Data fields to compare the row's against: those of the candidate lines
\* and some that differ from them in separators, prefix or tail
ComparisonData ==
    {DataOf(l) : l \in {c \in CandidateLines : Len(FieldsOf(c)) >= 4}}
    \cup {DataOf(LineExample) \o <<"A","B","C","D">>,
          <<"0","x">> \o DataOf(LineExample),
          <<"x","-"," ">> \o DataOf(LineLower) \o <<"z","0">>,
          DataOf(LineDataShort) \o <<":","8">>,
          DataOf(LineThree)}

-----------------------------------------------------------------------------
(* Properties *)

\* C1: a row with a valid timestamp T whose Data holds at least 24 hex
\* digits decodes to exactly 5 samples; sample i (0..4) carries T minus
\* 2*i minutes, so the timestamps fall by exactly 2 minutes, newest first.
Thm_C1 ==
    (Decoded /\ HexCount(row.Data) >= 24) =>
        /\ Len(records) = 5
        /\ \A i \in 0..4 :
               records[i + 1].Timestamp_JST =
                   [nat |-> FALSE,
                    instant |-> row.Timestamp.instant - 2 * i,
                    utcoffset |-> row.Timestamp.utcoffset]
        /\ \A i \in 1..4 :
               SortKey(records[i + 1]) = SortKey(records[i]) - 2

\* a payload of more than 24 hex digits between separators was decoded
Wit_C1 ==
    /\ Decoded
    /\ HexCount(row.Data) > 24
    /\ Len(row.Data) > HexCount(row.Data)
    /\ Len(records) = 5

\* C2: voltage = byte 0 * 0.0125 + 1.0 (in units of 0.0001 V: byte * 125
\* + 10000; 0 -> 1.0 V, 200 -> 3.5 V), battery = byte 1, distance i = the
\* big-endian 16-bit value of hex digits 4+4i..7+4i; the five samples share
\* voltage, battery and the row's device ID; the payload
\* 64320064012C01F401900258 gives 2.25 V, 50 %, 100/300/500/400/600 mm.
\* Stated of the row the loop decoded and of that row with the payloads of
\* LineBadTime (byte 0 = C8) and LineThree in its place.
DecodedAs(rw, recs) ==
    LET h == HexOnly(rw.Data)
        byte0 == BigEndian(h, 0, 2)
    IN  /\ \A i \in 0..4 :
               /\ recs[i + 1].Voltage_V = byte0 * 125 + 10000
               /\ recs[i + 1].Battery_Pct = BigEndian(h, 2, 2)
               /\ recs[i + 1].Distance_mm = BigEndian(h, 4 + 4 * i, 4)
               /\ recs[i + 1].DeviceID = rw.DeviceID
        /\ (byte0 = 0 => recs[1].Voltage_V = 10000)
        /\ (byte0 = 200 => recs[1].Voltage_V = 35000)
        /\ (SubSeq(h, 1, 24) = DataOf(LineExample) =>
               /\ recs[1].Voltage_V = 22500
               /\ recs[1].Battery_Pct = 50
               /\ [k \in 1..5 |-> recs[k].Distance_mm]
                      = <<100, 300, 500, 400, 600>>
               /\ [k \in 1..5 |-> rw.Timestamp.instant - SortKey(recs[k])]
                      = <<0, 2, 4, 6, 8>>)

Thm_C2 ==
    Decoded =>
        /\ records # <<>> => DecodedAs(row, records)
        /\ \A d \in {DataOf(LineBadTime), DataOf(LineThree)} :
               LET rw == [row EXCEPT !.Data = d]
                   recs == decode_payload(rw)
               IN  recs # <<>> => DecodedAs(rw, recs)

\* the example payload of the specification, written with separators and a
\* tail, was decoded
Wit_C2 ==
    /\ Decoded
    /\ records # <<>>
    /\ Prefix24(row.Data) = DataOf(LineExample)
    /\ row.Data # DataOf(LineExample)

\* C3: a Data field with fewer than 24 hex digits gives no sample, and the
\* decoder never returns a number of samples other than 0 or 5.
Thm_C3 ==
    /\ (Decoded /\ HexCount(row.Data) < 24) => records = <<>>
    /\ Len(records) \in {0, 5}

\* a field of 24 or more characters, fewer than 24 of them hex, was skipped
Wit_C3 ==
    /\ Decoded
    /\ Len(row.Data) >= 24
    /\ HexCount(row.Data) = 23
    /\ records = <<>>

\* C4: load_data returns, in line order, one row (field 0, field 1, last
\* field, stripped of whitespace and quotes) for every line that is not
\* empty after trimming, has at least 4 fields and is no header; fields
\* 2..n-2 do not influence the result.
Thm_C4 ==
    (readable /\ (pc = "loaded" \/ (pc = "done" /\ console[Len(console)] = "no_data"))) =>
        /\ df_raw = ExpectedRows(lines)
        /\ \A filler \in MiddleFillers :
               load_data(TRUE, [k \in 1..Len(lines) |->
                                    WithMiddle(lines[k], filler)]) = df_raw

\* a file with a header, a line of three fields, and a line of five fields
\* with padded, quoted fields was loaded
Wit_C4 ==
    /\ pc = "loaded"
    /\ Len(lines) = 3
    /\ Len(df_raw) = 1
    /\ \E k \in 1..3 : IsHeaderLine(lines[k]) /\ Len(FieldsOf(lines[k])) >= 4
    /\ \E k \in 1..3 : Len(FieldsOf(lines[k])) = 3
    /\ \E k \in 1..3 : Len(FieldsOf(lines[k])) = 5 /\ IsDataLine(lines[k])

\* C5: the series handed to the renderer is non-decreasing in timestamp,
\* whatever the order of the source rows.
Thm_C5 ==
    (pc \in {"plot", "done"} /\ df_plot # <<>>) => Ascending(df_plot)

\* rows that arrived out of time order were sorted
Wit_C5 ==
    /\ pc = "plot"
    /\ ~Ascending(all_records)
    /\ \E k \in 1..(Len(df_raw) - 1) :
           df_raw[k].Timestamp.instant > df_raw[k + 1].Timestamp.instant
    /\ Len(df_plot) = Len(all_records)

\* C6: the image is written at most once, only with at least one decoded
\* sample and only after the whole series is assembled and sorted; with no
\* parsed row, no row with a valid timestamp or no decoded sample, main ends
\* on a terminal message and writes no image.
Thm_C6 ==
    /\ savefig_calls <= 1
    /\ savefig_calls = 1 =>
           /\ all_records # <<>>
           /\ pos = Len(df_raw)
           /\ SameRecords(df_plot, all_records)
           /\ Ascending(df_plot)
    /\ pc = "done" =>
           LET f == [k \in 1..Len(lines) |-> FieldsOf(lines[k])]
               parsed == {k \in 1..Len(lines) : IsData(lines[k], f[k])}
               timed == {k \in parsed : HasValidTime(f[k])}
               decoded == {k \in timed : HexCount(f[k][1]) >= 24}
           IN  (~readable \/ parsed = {} \/ timed = {} \/ decoded = {}) =>
                   /\ savefig_calls = 0
                   /\ TerminalMessage

\* main ended without an image although rows were parsed and had valid
\* timestamps: nothing decoded
Wit_C6 ==
    /\ pc = "done"
    /\ savefig_calls = 0
    /\ TerminalMessage
    /\ Len(df_raw) >= 2
    /\ all_records = <<>>

\* C7: a row skipped for its timestamp or its payload neither stops the
\* pipeline nor touches the samples of the other rows: the series holds
\* exactly the five samples of every row with a parsable timestamp and a
\* decodable payload, at every point of the loop the samples of the rows
\* visited so far, and main ends with the image whenever there is one.
Thm_C7 ==
    /\ LoopOver =>
           LET expected == ExpectedSamples(lines)
           IN  /\ all_records = expected
               /\ (pc = "plot" \/ (pc = "done" /\ savefig_calls = 1)) =>
                      SameRecords(df_plot, expected)
               /\ pc = "done" => (savefig_calls = 1 <=> expected # <<>>)
    /\ pc = "decode" => all_records = SamplesOfRows(SubSeq(df_raw, 1, pos))

\* a good row, then a row with an unparsable timestamp or a short payload,
\* then a good row: main ended with the ten samples
Wit_C7 ==
    /\ pc = "done"
    /\ savefig_calls = 1
    /\ Len(lines) = 3
    /\ IsGoodLine(lines[1]) /\ IsGoodLine(lines[3])
    /\ IsDataLine(lines[2]) /\ ~IsGoodLine(lines[2])
    /\ Len(df_plot) = 10

CE_C9 ==
    \A k \in 1..Len(df_plot) :
        /\ df_plot[k].Distance_mm >= 0
        /\ df_plot[k].Battery_Pct \in 0..100

\* C9 as amended: every sample of the assembled series has a distance in
\* 0..65535 and a battery value in 0..255, byte 1 of the payload as it is;
\* values above 100 are not rejected.
Thm_C9 ==
    \A k \in 1..Len(df_plot) :
        /\ df_plot[k].Distance_mm \in 0..65535
        /\ df_plot[k].Battery_Pct \in 0..255

\* the assembled series holds a sample with battery 255 and one with
\* distance 65535
Wit_C9 ==
    /\ pc = "plot"
    /\ \E k \in 1..Len(df_plot) : df_plot[k].Battery_Pct = 255
    /\ \E k \in 1..Len(df_plot) : df_plot[k].Distance_mm = 65535

\* C10: the decoder's result depends only on the row's timestamp, its
\* device ID and the first 24 hex digits of the Data field: any Data field
\* with the same first 24 hex digits decodes to the same samples.
Thm_C10 ==
    Decoded =>
        LET p == Prefix24(row.Data)
        IN  \A d \in ComparisonData :
                Prefix24(d) = p =>
                    decode_payload([row EXCEPT !.Data = d]) = records

\* a row was decoded whose Data differs from another field with the same
\* first 24 hex digits
Wit_C10 ==
    /\ Decoded
    /\ records # <<>>
    /\ \E d \in ComparisonData :
           /\ d # row.Data
           /\ HexCount(d) # HexCount(row.Data)
           /\ Prefix24(d) = Prefix24(row.Data)

====
